---------------------------- MODULE Spec2Model ----------------------------
(***************************************************************************)
(* A model of tax_form/main.py: the two section scanners that recover      *)
(* vesting and purchase-plan (ESPP) records from statement text, the sale  *)
(* row extractor, the aggregators with their chronological sort, the       *)
(* document-level readers and the summary.                                 *)
(*                                                                         *)
(* Text is modelled as it is in the program: a line is a string, a text is *)
(* the sequence of lines that text.split("\n") yields, and every test on a *)
(* line (substring tests, strip, split, isdigit, isalnum, float) is        *)
(* computed character by character.                                        *)
(***************************************************************************)
EXTENDS Integers, Sequences, FiniteSets, TLC

VARIABLES
    pc,        \* the program position
    lines,     \* scanners: text.split("\n")
    pos,       \* scanners: index in lines of the line the for loop is at
    scan,      \* scanners: the locals of the running scan
    data,             \* display_*: the record list (dictionary of lists) shown
    date_quantities,  \* display_*: date -> summed quantity, in insertion order
    sorted_dates,     \* display_*: the items of date_quantities, sorted
    total_quantity,   \* display_*: the grand total printed under the table
    espp_total,       \* display_vested_results: total_purchased as printed
    vested_pdf,       \* the file at args.vested_pdf, as pdfplumber reads it
    sold_pdf,         \* the file at args.sold_pdf, as pdfplumber reads it
    no_vested,        \* args.no_vested
    no_sold,          \* args.no_sold
    page_num,         \* the page the running page loop is at
    all_text,         \* extract_vested_data: all_text, as its lines
    all_transactions, \* extract_table_from_pdf: all_transactions
    total_vested,     \* __main__: total_vested
    total_purchased,  \* __main__: total_purchased
    total_sold,       \* __main__: total_sold
    summary           \* display_summary: the net position line it prints

scanVars == <<lines, pos, scan>>
aggVars == <<data, date_quantities, sorted_dates, total_quantity, espp_total>>
shownVars == <<date_quantities, sorted_dates, total_quantity, espp_total>>
argVars == <<vested_pdf, sold_pdf, no_vested, no_sold>>
totalVars == <<total_vested, total_purchased, total_sold>>
mainVars == <<vested_pdf, sold_pdf, no_vested, no_sold, page_num, all_text,
              all_transactions, total_vested, total_purchased, total_sold,
              summary>>
vars == <<pc, lines, pos, scan, data, date_quantities, sorted_dates,
          total_quantity, espp_total, vested_pdf, sold_pdf, no_vested, no_sold,
          page_num, all_text, all_transactions, total_vested, total_purchased,
          total_sold, summary>>

---------------------------------------------------------------------------
(* Bounds of the model.                                                    *)

\* Longest text, in lines, handed to a section scanner.
MaxLines == 4

\* Longest record list handed to an aggregator.
MaxRecords == 3

\* Most pages of a document.
MaxPages == 2

---------------------------------------------------------------------------
(* Python's str operations, on strings as sequences of characters.         *)

\* p in s
Contains(s, p) ==
    \E i \in 1..(Len(s) - Len(p) + 1) : SubSeq(s, i, i + Len(p) - 1) = p

\* s.startswith(p)
StartsWith(s, p) == Len(s) >= Len(p) /\ SubSeq(s, 1, Len(p)) = p

IsSpace(c) == c = " "

IsDigit(c) == c \in {"0", "1", "2", "3", "4", "5", "6", "7", "8", "9"}

IsAlpha(c) ==
    c \in
    { "A", "B", "C", "D", "E", "F", "G", "H", "I", "J", "K", "L", "M",
      "N", "O", "P", "Q", "R", "S", "T", "U", "V", "W", "X", "Y", "Z",
      "a", "b", "c", "d", "e", "f", "g", "h", "i", "j", "k", "l", "m",
      "n", "o", "p", "q", "r", "s", "t", "u", "v", "w", "x", "y", "z" }

RECURSIVE LStrip(_)
LStrip(s) == IF s # "" /\ IsSpace(Head(s)) THEN LStrip(Tail(s)) ELSE s

RECURSIVE RStrip(_)
RStrip(s) ==
    IF s # "" /\ IsSpace(SubSeq(s, Len(s), Len(s)))
    THEN RStrip(SubSeq(s, 1, Len(s) - 1))
    ELSE s

\* s.strip()
Strip(s) == RStrip(LStrip(s))

RECURSIVE SplitWS(_, _, _)
SplitWS(s, cur, acc) ==
    IF s = ""
    THEN IF cur = "" THEN acc ELSE Append(acc, cur)
    ELSE IF IsSpace(Head(s))
         THEN SplitWS(Tail(s), "", IF cur = "" THEN acc ELSE Append(acc, cur))
         ELSE SplitWS(Tail(s), cur \o Head(s), acc)

\* s.split(): the maximal runs of non-whitespace characters
Split(s) == SplitWS(s, "", <<>>)

RECURSIVE Remove(_, _)
\* s.replace(c, "") for a one-character c
Remove(s, c) ==
    IF s = "" THEN ""
    ELSE IF Head(s) = c THEN Remove(Tail(s), c)
    ELSE Head(s) \o Remove(Tail(s), c)

RECURSIVE Count(_, _)
\* s.count(c) for a one-character c
Count(s, c) ==
    IF s = "" THEN 0
    ELSE (IF Head(s) = c THEN 1 ELSE 0) + Count(Tail(s), c)

\* len(s.split(c)) for a one-character c
SplitLen(s, c) == Count(s, c) + 1

\* s.isdigit()
IsDigitStr(s) == s # "" /\ \A i \in 1..Len(s) : IsDigit(SubSeq(s, i, i))

\* s.isalnum()
IsAlnumStr(s) ==
    s # "" /\ \A i \in 1..Len(s) :
                 IsDigit(SubSeq(s, i, i)) \/ IsAlpha(SubSeq(s, i, i))

---------------------------------------------------------------------------
(* extract_vested_stocks_from_text                                         *)

VestedRecord(vest_date, shares) ==
    ("Vest Date" :> vest_date) @@ ("Shares" :> shares)

\* the locals of extract_vested_stocks_from_text before its loop; brk records
\* that the loop was left by break
VestedLocals ==
    [in_section |-> FALSE, header_line_count |-> 0, records |-> <<>>,
     brk |-> FALSE]

IsVestedMarker(line) == Contains(line, "Vested Stocks") /\ Contains(line, "2024")

IsVestedStop(line) == Contains(line, "ESPP")

IsVestedHeader(line) ==
    \/ Contains(line, "Award") /\ Contains(line, "Date")
    \/ Contains(line, "Date Date Price")

IsVestedTotalLine(line) ==
    IsDigitStr(Remove(Remove(Remove(Strip(line), "."), "'"), " "))

ValidVestDate(vest_date) ==
    Contains(vest_date, ".") /\ SplitLen(vest_date, ".") = 3

\* VestedRow validating the award date (column 1) instead of the vest date
VestedRow_WrongColumn(records, line) ==
    LET parts == Split(line) IN
    IF Len(parts) >= 6 /\ ValidVestDate(parts[1])
    THEN Append(records, VestedRecord(parts[3], parts[6]))
    ELSE records

\* VestedRow taking the shares from the market value column (index 4)
VestedRow_SharesOffByOne(records, line) ==
    LET parts == Split(line) IN
    IF Len(parts) >= 6 /\ ValidVestDate(parts[3])
    THEN Append(records, VestedRecord(parts[3], parts[5]))
    ELSE records

\* the data-row part of the loop body: the records after a line that is no
\* marker, stop line, header or total line
VestedRow(records, line) ==
    LET parts == Split(line) IN
    IF Len(parts) >= 6 /\ ValidVestDate(parts[3])
    THEN Append(records, VestedRecord(parts[3], parts[6]))
    ELSE records

\* VestedLine with the data-row parse ahead of the marker and stop tests
VestedLine_RowFirst(st, line) ==
    IF st.in_section /\ VestedRow(st.records, line) # st.records
    THEN [st EXCEPT !.records = VestedRow(@, line)]
    ELSE IF IsVestedMarker(line) THEN [st EXCEPT !.in_section = TRUE]
    ELSE IF IsVestedStop(line) THEN [st EXCEPT !.brk = TRUE]
    ELSE st

\* VestedLine without the in_vested_section test ahead of the row handling
VestedLine_NoSectionTest(st, line) ==
    IF IsVestedMarker(line) THEN [st EXCEPT !.in_section = TRUE]
    ELSE IF IsVestedStop(line) THEN [st EXCEPT !.brk = TRUE]
    ELSE IF Strip(line) # "" THEN
        IF IsVestedHeader(line)
        THEN [st EXCEPT !.header_line_count = @ + 1]
        ELSE IF IsVestedTotalLine(line) THEN st
        ELSE [st EXCEPT !.records = VestedRow(@, line)]
    ELSE st

\* one iteration of the for loop, on `line`
VestedLine(st, line) ==
    IF IsVestedMarker(line) THEN [st EXCEPT !.in_section = TRUE]
    ELSE IF IsVestedStop(line) THEN [st EXCEPT !.brk = TRUE]
    ELSE IF st.in_section /\ Strip(line) # "" THEN
        IF IsVestedHeader(line)
        THEN [st EXCEPT !.header_line_count = @ + 1]
        ELSE IF IsVestedTotalLine(line) THEN st
        ELSE [st EXCEPT !.records = VestedRow(@, line)]
    ELSE st

RECURSIVE VestedLoop(_, _, _)
VestedLoop(st, text, i) ==
    IF i > Len(text) \/ st.brk THEN st
    ELSE VestedLoop(VestedLine(st, text[i]), text, i + 1)

\* the whole function, on the lines of its text
ExtractVestedStocksFromText(text) == VestedLoop(VestedLocals, text, 1).records

---------------------------------------------------------------------------
(* extract_espp_from_text                                                  *)

EsppRecord(off_period, purchased_shares) ==
    ("Off Period" :> off_period) @@ ("Purchased Shares" :> purchased_shares)

EsppLocals ==
    [in_section |-> FALSE, header_line_count |-> 0, records |-> <<>>,
     brk |-> FALSE]

IsEsppMarker(line) == Contains(line, "ESPP (Employee Stock Purchase Plan)")

IsEsppStop(line) == Contains(line, "Total amount") \/ Contains(line, "Page")

IsEsppHeader(line) ==
    \/ Contains(line, "Off Period") /\ Contains(line, "Purchased")
    \/ Contains(line, "Shares Price")

IsEsppContinuation(line) == StartsWith(Strip(line), "CHF")

ValidOffPeriod(off_period, purchased_shares) ==
    \/ IsDigitStr(off_period)
    \/ IsAlnumStr(off_period) /\ IsDigitStr(Remove(purchased_shares, "."))

EsppRow(records, line) ==
    LET parts == Split(line) IN
    IF Len(parts) >= 2 /\ ValidOffPeriod(parts[1], parts[2])
    THEN Append(records, EsppRecord(parts[1], parts[2]))
    ELSE records

EsppLine(st, line) ==
    IF IsEsppMarker(line) THEN [st EXCEPT !.in_section = TRUE]
    ELSE IF st.in_section /\ IsEsppStop(line) THEN [st EXCEPT !.brk = TRUE]
    ELSE IF st.in_section /\ Strip(line) # "" THEN
        IF IsEsppHeader(line)
        THEN [st EXCEPT !.header_line_count = @ + 1]
        ELSE IF IsEsppContinuation(line) THEN st
        ELSE [st EXCEPT !.records = EsppRow(@, line)]
    ELSE st

RECURSIVE EsppLoop(_, _, _)
EsppLoop(st, text, i) ==
    IF i > Len(text) \/ st.brk THEN st
    ELSE EsppLoop(EsppLine(st, text[i]), text, i + 1)

ExtractEsppFromText(text) == EsppLoop(EsppLocals, text, 1).records

---------------------------------------------------------------------------
(* float(), on the decimal literals the quantities of the model can hold.  *)
(* A float is kept as the exact number of 1/QtyScale units it stands for.  *)
(* float() also takes an exponent, "_" between digits and inf/nan; no      *)
(* quantity of the model holds the characters those forms need.            *)

QtyScale == 10000

DigitMap ==
    [c \in {"0", "1", "2", "3", "4", "5", "6", "7", "8", "9"} |->
        CHOOSE n \in 0..9 : SubSeq("0123456789", n + 1, n + 1) = c]

DigitVal(c) == DigitMap[c]

RECURSIVE NumVal(_)
\* int(s) for a string of digits ("" gives 0)
NumVal(s) ==
    IF s = "" THEN 0
    ELSE NumVal(SubSeq(s, 1, Len(s) - 1)) * 10 + DigitVal(SubSeq(s, Len(s), Len(s)))

RECURSIVE SplitOnAcc(_, _, _, _)
SplitOnAcc(s, c, cur, acc) ==
    IF s = "" THEN Append(acc, cur)
    ELSE IF Head(s) = c THEN SplitOnAcc(Tail(s), c, "", Append(acc, cur))
    ELSE SplitOnAcc(Tail(s), c, cur \o Head(s), acc)

\* s.split(c) for a one-character c
SplitOn(s, c) == SplitOnAcc(s, c, "", <<>>)

\* the literal without its sign
Unsigned(s) ==
    IF s # "" /\ Head(s) \in {"+", "-"} THEN Tail(s) ELSE s

\* float(s) does not raise ValueError
FloatOK(s) ==
    LET u == Unsigned(Strip(s)) IN
    /\ Count(u, ".") <= 1
    /\ IsDigitStr(Remove(u, "."))

\* float(s), in 1/QtyScale units, for a string with FloatOK(s)
FloatVal(s) ==
    LET t == Strip(s)
        u == Unsigned(t)
        p == SplitOn(u, ".")
        frac == IF Len(p) = 2 THEN SubSeq(p[2] \o "0000", 1, 4) ELSE "0000"
        mag == NumVal(p[1]) * QtyScale + NumVal(frac)
    IN IF Head(t) = "-" THEN 0 - mag ELSE mag

---------------------------------------------------------------------------
(* datetime.strptime with "%b-%d-%Y" and "%d.%m.%Y".                       *)

Uppers == "ABCDEFGHIJKLMNOPQRSTUVWXYZ"
Lowers == "abcdefghijklmnopqrstuvwxyz"

LowerMap ==
    [c \in {SubSeq(Uppers, i, i) : i \in 1..26} |->
        LET i == CHOOSE k \in 1..26 : SubSeq(Uppers, k, k) = c
        IN SubSeq(Lowers, i, i)]

LowerChar(c) == IF c \in DOMAIN LowerMap THEN LowerMap[c] ELSE c

RECURSIVE Lower(_)
Lower(s) == IF s = "" THEN "" ELSE LowerChar(Head(s)) \o Lower(Tail(s))

MonthAbbr ==
    <<"jan", "feb", "mar", "apr", "may", "jun",
      "jul", "aug", "sep", "oct", "nov", "dec">>

\* %b: a month abbreviation, in any case
IsMonthName(s) == LET l == Lower(s) IN \E m \in 1..12 : MonthAbbr[m] = l
MonthOfName(s) == LET l == Lower(s) IN CHOOSE m \in 1..12 : MonthAbbr[m] = l

\* %d: 1-9, 01-31, or a space and 1-9
IsDayField(s) ==
    \/ Len(s) = 1 /\ IsDigitStr(s) /\ NumVal(s) >= 1
    \/ Len(s) = 2 /\ IsDigitStr(s) /\ NumVal(s) \in 1..31
    \/ Len(s) = 2 /\ Head(s) = " " /\ IsDigitStr(Tail(s)) /\ NumVal(Tail(s)) >= 1

\* %m: 1-9, 01-12
IsMonthField(s) ==
    \/ Len(s) = 1 /\ IsDigitStr(s) /\ NumVal(s) >= 1
    \/ Len(s) = 2 /\ IsDigitStr(s) /\ NumVal(s) \in 1..12

\* %Y: four digits
IsYearField(s) == Len(s) = 4 /\ IsDigitStr(s)

IsLeap(y) == (y % 4 = 0 /\ y % 100 # 0) \/ y % 400 = 0

DaysInMonth(y, m) ==
    IF m = 2 THEN (IF IsLeap(y) THEN 29 ELSE 28)
    ELSE IF m \in {4, 6, 9, 11} THEN 30 ELSE 31

\* datetime(y, m, d) does not raise ValueError
IsDate(y, m, d) == y >= 1 /\ m \in 1..12 /\ d \in 1..DaysInMonth(y, m)

\* a datetime at midnight, as a number that orders as datetimes do
DateOrd(y, m, d) == y * 10000 + m * 100 + d

DayVal(s) == NumVal(Remove(s, " "))

\* datetime.strptime(s, "%b-%d-%Y") does not raise ValueError
SaleDateOK(s) ==
    LET p == SplitOn(s, "-") IN
    /\ Len(p) = 3
    /\ IsMonthName(p[1]) /\ IsDayField(p[2]) /\ IsYearField(p[3])
    /\ IsDate(NumVal(p[3]), MonthOfName(p[1]), DayVal(p[2]))

SaleDateVal(s) ==
    LET p == SplitOn(s, "-") IN
    DateOrd(NumVal(p[3]), MonthOfName(p[1]), DayVal(p[2]))

\* datetime.strptime(s, "%d.%m.%Y") does not raise ValueError
VestDateOK(s) ==
    LET p == SplitOn(s, ".") IN
    /\ Len(p) = 3
    /\ IsDayField(p[1]) /\ IsMonthField(p[2]) /\ IsYearField(p[3])
    /\ IsDate(NumVal(p[3]), NumVal(p[2]), DayVal(p[1]))

VestDateVal(s) ==
    LET p == SplitOn(s, ".") IN
    DateOrd(NumVal(p[3]), NumVal(p[2]), DayVal(p[1]))

\* datetime(1900, 1, 1), the key of a date string that does not parse
EarlyDate == DateOrd(1900, 1, 1)

\* parse_date of display_results
parse_date(date_str) ==
    IF SaleDateOK(date_str) THEN SaleDateVal(date_str) ELSE EarlyDate

\* parse_vest_date of display_vested_results
parse_vest_date(date_str) ==
    IF VestDateOK(date_str) THEN VestDateVal(date_str) ELSE EarlyDate

---------------------------------------------------------------------------
(* extract_transactions_from_text: re.search of                            *)
(*   (\w{3}-\d{2}-\d{4})\s+(\w{3}-\d{2}-\d{4})\s+([\d.]+)\s+\$[\d,.]+      *)
(* in each line.                                                           *)

SaleRecord(date_sold, quantity) ==
    ("Date sold or transferred" :> date_sold) @@ ("Quantity" :> quantity)

\* s[k - 1] of Python, "" past the end
Ch(s, k) == IF k \in 1..Len(s) THEN SubSeq(s, k, k) ELSE ""

\* \w
IsWord(c) == c # "" /\ (IsAlpha(c) \/ IsDigit(c) \/ c = "_")

\* \w{3}-\d{2}-\d{4} at index i
DateAt(s, i) ==
    /\ \A k \in 0..2 : IsWord(Ch(s, i + k))
    /\ Ch(s, i + 3) = "-"
    /\ \A k \in 4..5 : IsDigit(Ch(s, i + k))
    /\ Ch(s, i + 6) = "-"
    /\ \A k \in 7..10 : IsDigit(Ch(s, i + k))

RECURSIVE RunEnd(_, _, _)
\* the index behind the longest run, from index i, of characters of S
RunEnd(s, i, S) == IF Ch(s, i) \in S THEN RunEnd(s, i + 1, S) ELSE i

QuantityChars == {"0", "1", "2", "3", "4", "5", "6", "7", "8", "9", "."}
AmountChars == QuantityChars \cup {","}

\* the pattern matches at index i
MatchAt(s, i) ==
    LET d2 == RunEnd(s, i + 11, {" "})
        q == RunEnd(s, d2 + 11, {" "})
        qe == RunEnd(s, q, QuantityChars)
        m == RunEnd(s, qe, {" "})
    IN /\ DateAt(s, i)
       /\ d2 > i + 11 /\ DateAt(s, d2)
       /\ q > d2 + 11 /\ qe > q
       /\ m > qe /\ Ch(s, m) = "$" /\ Ch(s, m + 1) \in AmountChars

\* re.search(pattern, line) is not None
IsSaleRow(line) == \E i \in 1..Len(line) : MatchAt(line, i)

\* the record of a matching line: groups 1 and 3 of the leftmost match
SaleRowRecord(line) ==
    LET i == CHOOSE k \in 1..Len(line) :
                 MatchAt(line, k) /\ \A j \in 1..(k - 1) : ~MatchAt(line, j)
        q == RunEnd(line, RunEnd(line, i + 11, {" "}) + 11, {" "})
    IN SaleRecord(SubSeq(line, i, i + 10),
                  SubSeq(line, q, RunEnd(line, q, QuantityChars) - 1))

RECURSIVE ExtractTransactionsFromText(_)
\* extract_transactions_from_text, on the lines of its text
ExtractTransactionsFromText(text) ==
    IF text = <<>> THEN <<>>
    ELSE (IF IsSaleRow(text[1]) THEN <<SaleRowRecord(text[1])>> ELSE <<>>)
         \o ExtractTransactionsFromText(Tail(text))

---------------------------------------------------------------------------
(* The aggregators. A dict is the sequence of its <<key, value>> items in  *)
(* insertion order, which is the order Python iterates and sorts them in.  *)

HasKey(d, k) == \E i \in 1..Len(d) : d[i][1] = k

\* d[k] += v when k is in d, and d[k] = v otherwise
AddTo_Overwrite(d, k, v) ==
    IF HasKey(d, k)
    THEN [i \in 1..Len(d) |-> IF d[i][1] = k THEN <<k, v>> ELSE d[i]]
    ELSE Append(d, <<k, v>>)

AddTo(d, k, v) ==
    IF HasKey(d, k)
    THEN [i \in 1..Len(d) |-> IF d[i][1] = k THEN <<k, d[i][2] + v>> ELSE d[i]]
    ELSE Append(d, <<k, v>>)

\* the quantity conversion of aggregate_by_date and read_sold_shares:
\* float(quantity_str) on the raw string
SaleQuantityOK(quantity_str) == FloatOK(quantity_str)
SaleQuantity(quantity_str) == FloatVal(quantity_str)

\* the quantity conversion of display_vested_results and read_vested_data:
\* float(shares.replace(",", "").replace("'", ""))
CleanShares(shares) == Remove(Remove(shares, ","), "'")
SharesQuantityOK(shares) == FloatOK(CleanShares(shares))
SharesQuantity(shares) == FloatVal(CleanShares(shares))

RECURSIVE AggregateFrom(_, _, _)
AggregateFrom(d, records, i) ==
    IF i > Len(records) THEN d
    ELSE LET date_sold == records[i]["Date sold or transferred"]
             quantity_str == records[i]["Quantity"]
         IN AggregateFrom(
                IF SaleQuantityOK(quantity_str)
                THEN AddTo(d, date_sold, SaleQuantity(quantity_str))
                ELSE d,
                records, i + 1)

\* aggregate_by_date
aggregate_by_date(records) == AggregateFrom(<<>>, records, 1)

RECURSIVE DateSharesFrom(_, _, _)
DateSharesFrom(d, vested_stocks, i) ==
    IF i > Len(vested_stocks) THEN d
    ELSE LET vest_date == vested_stocks[i]["Vest Date"]
             shares == vested_stocks[i]["Shares"]
         IN DateSharesFrom(
                IF SharesQuantityOK(shares)
                THEN AddTo(d, vest_date, SharesQuantity(shares))
                ELSE d,
                vested_stocks, i + 1)

\* date_shares of display_vested_results
DateShares(vested_stocks) == DateSharesFrom(<<>>, vested_stocks, 1)

\* index i put into the sorted sequence s of indices, behind every index whose
\* key is not larger
InsertSorted(s, i, keys) ==
    LET n == Cardinality({k \in 1..Len(s) : keys[s[k]] <= keys[i]})
    IN SubSeq(s, 1, n) \o <<i>> \o SubSeq(s, n + 1, Len(s))

RECURSIVE OrderFrom(_, _, _)
OrderFrom(s, keys, i) ==
    IF i > Len(keys) THEN s
    ELSE OrderFrom(InsertSorted(s, i, keys), keys, i + 1)

\* sorted(items, key=...) with keys[i] the key of items[i]: a stable sort
Sorted(items, keys) ==
    LET order == OrderFrom(<<>>, keys, 1)
    IN [k \in 1..Len(items) |-> items[order[k]]]

RECURSIVE SumValues(_)
\* the running total over the sorted items
SumValues(items) ==
    IF items = <<>> THEN 0 ELSE items[1][2] + SumValues(Tail(items))

RECURSIVE PurchasedTotal(_)
\* total_purchased over espp_data: the entries that convert are added
PurchasedTotal(espp_data) ==
    IF espp_data = <<>> THEN 0
    ELSE (IF SharesQuantityOK(espp_data[1]["Purchased Shares"])
          THEN SharesQuantity(espp_data[1]["Purchased Shares"]) ELSE 0)
         + PurchasedTotal(Tail(espp_data))

---------------------------------------------------------------------------
(* The documents. A PDF file exists or not (Path(pdf_path).exists()),      *)
(* opens or not (pdfplumber.open raises) and has pages; on a page,         *)
(* extract_text() raises or gives a text (its lines), NoText standing for  *)
(* None and for the empty string.                                          *)

NoText == <<"">>

\* not text: the page has no text
Falsy(text) == text = NoText

Page(text) == [raises |-> FALSE, text |-> text]
ErrorPage == [raises |-> TRUE, text |-> NoText]

VestedPages ==
    { Page(<<"Vested Stocks 2024",
             "01.03.2022 AB123 15.03.2024 10.00 1500.00 150">>),
      Page(<<"02.03.2022 AB124 15.06.2024 10.00 800.00 1'000">>),
      Page(<<"ESPP (Employee Stock Purchase Plan)", "202401 12.5 20.00 17.00">>),
      Page(NoText), ErrorPage }

SoldPages ==
    { Page(<<"Date sold Date acquired Quantity",
             "Jan-16-2024 Jun-01-2020 3.0000 $549.75 $1,175.99 + $626.24 USD DO">>),
      Page(<<"Feb-30-2024 Jun-01-2020 1.2.3 $5.00",
             "Jan-01-1850 Jun-01-1840 10.5 $1.00">>),
      Page(NoText), ErrorPage }

MissingFile == [exists |-> FALSE, opens |-> FALSE, pages |-> <<>>]
UnreadableFile == [exists |-> TRUE, opens |-> FALSE, pages |-> <<>>]

Documents(pages) ==
    {MissingFile, UnreadableFile}
    \cup { [exists |-> TRUE, opens |-> TRUE, pages |-> ps] :
             ps \in UNION { [1..n -> pages] : n \in 0..MaxPages } }

\* the lines of all_text + text + "\n", from the lines of all_text and of text
AppendText(all, text) ==
    SubSeq(all, 1, Len(all) - 1) \o <<all[Len(all)] \o text[1]>>
        \o Tail(text) \o <<"">>

RECURSIVE VestedTotal(_)
\* total_vested of read_vested_data (526-532)
VestedTotal(vested_stocks) ==
    IF vested_stocks = <<>> THEN 0
    ELSE (IF SharesQuantityOK(vested_stocks[1]["Shares"])
          THEN SharesQuantity(vested_stocks[1]["Shares"]) ELSE 0)
         + VestedTotal(Tail(vested_stocks))

RECURSIVE SoldTotal(_)
\* total_sold of read_sold_shares (576-582)
SoldTotal(transactions) ==
    IF transactions = <<>> THEN 0
    ELSE (IF SaleQuantityOK(transactions[1]["Quantity"])
          THEN SaleQuantity(transactions[1]["Quantity"]) ELSE 0)
         + SoldTotal(Tail(transactions))

\* nothing printed by display_summary
NoSummary == [label |-> "", value |-> 0]

\* DisplaySummary printing the signed difference in the oversold case
DisplaySummary_Signed(vested, purchased, sold) ==
    LET difference == (vested + purchased) - sold IN
    IF difference >= 0
    THEN [label |-> "Net Position (Remaining):", value |-> difference]
    ELSE [label |-> "Net Position (Oversold):", value |-> difference]

\* the net position line of display_summary (606-610)
DisplaySummary(vested, purchased, sold) ==
    LET difference == (vested + purchased) - sold IN
    IF difference >= 0
    THEN [label |-> "Net Position (Remaining):", value |-> difference]
    ELSE [label |-> "Net Position (Oversold):", value |-> 0 - difference]

\* what one page's text yields for the result list `key`
PageRecords(key, page_text) ==
    CASE key = "vested_stocks" -> ExtractVestedStocksFromText(page_text)
      [] key = "espp_data" -> ExtractEsppFromText(page_text)
      [] key = "transactions" -> ExtractTransactionsFromText(page_text)

RECURSIVE PerPage(_, _, _)
\* results[key].extend(...) page after page, for the pages with text
PerPage(pages, i, key) ==
    IF i > Len(pages) THEN <<>>
    ELSE (IF Falsy(pages[i].text) THEN <<>> ELSE PageRecords(key, pages[i].text))
         \o PerPage(pages, i + 1, key)

\* extract_vested_stocks (354-398), for a file whose pages all read
extract_vested_stocks(pdf) ==
    [vested_stocks |-> PerPage(pdf.pages, 1, "vested_stocks"),
     espp_data |-> PerPage(pdf.pages, 1, "espp_data")]

---------------------------------------------------------------------------
(* The texts the scanners are run on.                                      *)

VestedCatalogue ==
    { "Vested Stocks 2024",
      "Award Date Award ID Date Price",
      "01.03.2022 AB123 15.03.2024 10.00 1500.00 150",
      "02.03.2022 AB124 15.06.2024 10.00 800.00 1'000",
      "01.03.2022 ESPP 15.09.2024 10.00 1500.00 70",
      "ESPP (Employee Stock Purchase Plan)",
      "Vested Stocks 15.03.2024 10.00 1500.00 150",
      "01.03.2022 AB125 03.2024 10.00 1500.00 33",
      "Total 150",
      "1'500.00",
      "" }

EsppCatalogue ==
    { "ESPP (Employee Stock Purchase Plan)",
      "Off Period Purchased Shares Price",
      "202401 ESPP (Employee Stock Purchase Plan)",
      "202401 12.5 20.00 17.00",
      "2024H2 8 21.00 17.85",
      "Page 2",
      "Total amount 20.5",
      "Vested Stocks 2024",
      "H1-24 12.5",
      "202402",
      "CHF 350.00" }

Texts(catalogue) == UNION { [1..n -> catalogue] : n \in 0..MaxLines }

---------------------------------------------------------------------------
(* The scanners, one loop iteration at a time.                             *)

\* the variables of the parts of the program a specification leaves out
ScanIdle == lines = <<>> /\ pos = 0 /\ scan = VestedLocals
AggIdle ==
    /\ data = <<>> /\ date_quantities = <<>> /\ sorted_dates = <<>>
    /\ total_quantity = 0 /\ espp_total = 0

MainIdle ==
    /\ vested_pdf = MissingFile /\ sold_pdf = MissingFile
    /\ no_vested = TRUE /\ no_sold = TRUE
    /\ page_num = 0 /\ all_text = <<"">> /\ all_transactions = <<>>
    /\ total_vested = 0 /\ total_purchased = 0 /\ total_sold = 0
    /\ summary = NoSummary

InitScan ==
    /\ AggIdle /\ MainIdle
    /\ pos = 1
    /\ \/ pc = "vested_loop" /\ scan = VestedLocals /\ lines \in Texts(VestedCatalogue)
       \/ pc = "espp_loop" /\ scan = EsppLocals /\ lines \in Texts(EsppCatalogue)

\* for line in lines: ... (244-283); a break leaves pos at the line that broke
VestedIterate ==
    /\ pc = "vested_loop"
    /\ pos <= Len(lines)
    /\ scan' = VestedLine(scan, lines[pos])
    /\ IF scan'.brk THEN pc' = "vested_return" /\ pos' = pos
                    ELSE pc' = pc /\ pos' = pos + 1
    /\ UNCHANGED <<lines, aggVars, mainVars>>

\* return vested_stocks (285)
VestedReturn ==
    /\ pc = "vested_loop"
    /\ pos > Len(lines)
    /\ pc' = "vested_return"
    /\ UNCHANGED <<scanVars, aggVars, mainVars>>

EsppIterate ==
    /\ pc = "espp_loop"
    /\ pos <= Len(lines)
    /\ scan' = EsppLine(scan, lines[pos])
    /\ IF scan'.brk THEN pc' = "espp_return" /\ pos' = pos
                    ELSE pc' = pc /\ pos' = pos + 1
    /\ UNCHANGED <<lines, aggVars, mainVars>>

EsppReturn ==
    /\ pc = "espp_loop"
    /\ pos > Len(lines)
    /\ pc' = "espp_return"
    /\ UNCHANGED <<scanVars, aggVars, mainVars>>

NextScan == VestedIterate \/ VestedReturn \/ EsppIterate \/ EsppReturn

SpecScan == InitScan /\ [][NextScan]_vars

---------------------------------------------------------------------------
(* display_results and display_vested_results, on the record lists they    *)
(* are called with.                                                        *)

SaleDates == {"Jan-16-2024", "Jan-01-1850", "Feb-30-2024"}
SaleQuantities == {"3.0000", "10.5", "1,000", "1.2.3"}
VestDates == {"15.03.2024", "01.01.1850", "31.02.2024"}
ShareQuantities == {"150", "1'000", "1,000", "AB"}

ListsOf(S) == UNION { [1..n -> S] : n \in 0..MaxRecords }

SaleLists ==
    ListsOf({ SaleRecord(d, q) : d \in SaleDates, q \in SaleQuantities })
VestedLists ==
    ListsOf({ VestedRecord(d, q) : d \in VestDates, q \in ShareQuantities })
EsppLists ==
    { <<>>,
      <<EsppRecord("202401", "1'000"), EsppRecord("2024H2", "n/a")>> }

InitAgg ==
    /\ ScanIdle /\ MainIdle
    /\ date_quantities = <<>> /\ sorted_dates = <<>>
    /\ total_quantity = 0 /\ espp_total = 0
    /\ \/ pc = "display_results" /\ data \in SaleLists
       \/ /\ pc = "display_vested_results"
          /\ data \in [vested_stocks : VestedLists, espp_data : EsppLists]

\* display_results(d) (152-225): what it computes and prints
ShowResults(d) ==
    IF d = <<>>
    THEN UNCHANGED <<date_quantities, sorted_dates, total_quantity>>
    ELSE LET aggregated_data == aggregate_by_date(d)
             items == Sorted(aggregated_data,
                             [i \in 1..Len(aggregated_data) |->
                                 parse_date(aggregated_data[i][1])])
         IN /\ date_quantities' = aggregated_data
            /\ sorted_dates' = items
            /\ total_quantity' = SumValues(items)

\* display_vested_results(d) (401-499): what it computes and prints
ShowVestedResults(d) ==
    /\ IF d.vested_stocks = <<>>
       THEN UNCHANGED <<date_quantities, sorted_dates, total_quantity>>
       ELSE LET date_shares == DateShares(d.vested_stocks)
                items == Sorted(date_shares,
                                [i \in 1..Len(date_shares) |->
                                    parse_vest_date(date_shares[i][1])])
            IN /\ date_quantities' = date_shares
               /\ sorted_dates' = items
               /\ total_quantity' = SumValues(items)
    /\ espp_total' = PurchasedTotal(d.espp_data)

DisplayResults ==
    /\ pc = "display_results"
    /\ pc' = "displayed_results"
    /\ ShowResults(data)
    /\ UNCHANGED <<scanVars, mainVars, data, espp_total>>

DisplayVestedResults ==
    /\ pc = "display_vested_results"
    /\ pc' = "displayed_vested"
    /\ ShowVestedResults(data)
    /\ UNCHANGED <<scanVars, mainVars, data>>

NextAgg == DisplayResults \/ DisplayVestedResults

SpecAgg == InitAgg /\ [][NextAgg]_vars

---------------------------------------------------------------------------
(* __main__ (674-700) with read_vested_data, extract_vested_data,          *)
(* read_sold_shares, extract_table_from_pdf and display_summary.           *)

InitMain ==
    /\ ScanIdle
    /\ data = [vested_stocks |-> <<>>, espp_data |-> <<>>]
    /\ date_quantities = <<>> /\ sorted_dates = <<>>
    /\ total_quantity = 0 /\ espp_total = 0
    /\ pc = "main"
    /\ no_vested \in BOOLEAN /\ no_sold \in BOOLEAN
    /\ vested_pdf \in (IF no_vested THEN {MissingFile} ELSE Documents(VestedPages))
    /\ sold_pdf \in (IF no_sold THEN {MissingFile} ELSE Documents(SoldPages))
    /\ page_num = 0 /\ all_text = <<"">> /\ all_transactions = <<>>
    /\ total_vested = 0 /\ total_purchased = 0 /\ total_sold = 0
    /\ summary = NoSummary

\* if not args.no_vested (685), when it is set
SkipVested ==
    /\ pc = "main" /\ no_vested
    /\ pc' = "main_sold"
    /\ UNCHANGED <<scanVars, aggVars, mainVars>>

\* read_vested_data up to pdfplumber.open (514-520, 27-28)
ReadVestedDataEnter ==
    /\ pc = "main" /\ ~no_vested
    /\ IF ~vested_pdf.exists
       THEN /\ total_vested' = 0 /\ total_purchased' = 0
            /\ pc' = "main_sold"
            /\ UNCHANGED <<page_num, all_text>>
       ELSE IF ~vested_pdf.opens
       THEN /\ pc' = "read_vested_except"
            /\ UNCHANGED <<page_num, all_text, total_vested, total_purchased>>
       ELSE /\ pc' = "vested_pages"
            /\ page_num' = 1 /\ all_text' = <<"">>
            /\ UNCHANGED <<total_vested, total_purchased>>
    /\ UNCHANGED <<scanVars, aggVars, argVars, all_transactions, total_sold,
                   summary>>

\* one iteration of the page loop of extract_vested_data (29-32)
ExtractVestedDataPage ==
    /\ pc = "vested_pages" /\ page_num <= Len(vested_pdf.pages)
    /\ LET page == vested_pdf.pages[page_num] IN
       IF page.raises
       THEN pc' = "read_vested_except" /\ UNCHANGED <<page_num, all_text>>
       ELSE /\ pc' = pc
            /\ page_num' = page_num + 1
            /\ all_text' = IF Falsy(page.text) THEN all_text
                           ELSE AppendText(all_text, page.text)
    /\ UNCHANGED <<scanVars, aggVars, argVars, all_transactions, totalVars,
                   summary>>

\* the two scans of extract_vested_data and its return (35-40)
ExtractVestedDataReturn ==
    /\ pc = "vested_pages" /\ page_num > Len(vested_pdf.pages)
    /\ data' = [vested_stocks |-> ExtractVestedStocksFromText(all_text),
                espp_data |-> ExtractEsppFromText(all_text)]
    /\ pc' = "vested_data"
    /\ UNCHANGED <<scanVars, shownVars, mainVars>>

\* read_vested_data once it has the data (522-547)
ReadVestedDataFinish ==
    /\ pc = "vested_data"
    /\ IF data.vested_stocks # <<>> \/ data.espp_data # <<>>
       THEN /\ ShowVestedResults(data)
            /\ total_vested' = VestedTotal(data.vested_stocks)
            /\ total_purchased' = PurchasedTotal(data.espp_data)
       ELSE /\ total_vested' = 0 /\ total_purchased' = 0
            /\ UNCHANGED shownVars
    /\ pc' = "main_sold"
    /\ UNCHANGED <<scanVars, data, argVars, page_num, all_text,
                   all_transactions, total_sold, summary>>

\* except Exception of read_vested_data (549-551)
ReadVestedDataExcept ==
    /\ pc = "read_vested_except"
    /\ total_vested' = 0 /\ total_purchased' = 0
    /\ pc' = "main_sold"
    /\ UNCHANGED <<scanVars, aggVars, argVars, page_num, all_text,
                   all_transactions, total_sold, summary>>

\* if not args.no_sold (695), when it is set
SkipSold ==
    /\ pc = "main_sold" /\ no_sold
    /\ pc' = "main_summary"
    /\ UNCHANGED <<scanVars, aggVars, mainVars>>

\* ReadSoldSharesEnter without the Path(pdf_path).exists() test: opening a
\* file that is not there raises
ReadSoldSharesEnter_NoExistsTest ==
    /\ pc = "main_sold" /\ ~no_sold
    /\ IF ~sold_pdf.exists \/ ~sold_pdf.opens
       THEN /\ pc' = "extract_table_except"
            /\ all_transactions' = <<>>
            /\ UNCHANGED <<page_num, total_sold>>
       ELSE /\ pc' = "sold_pages"
            /\ page_num' = 1 /\ all_transactions' = <<>>
            /\ UNCHANGED total_sold
    /\ UNCHANGED <<scanVars, aggVars, argVars, all_text, total_vested,
                   total_purchased, summary>>

\* read_sold_shares up to pdfplumber.open (564-570, 84-88)
ReadSoldSharesEnter ==
    /\ pc = "main_sold" /\ ~no_sold
    /\ IF ~sold_pdf.exists
       THEN /\ total_sold' = 0
            /\ pc' = "main_summary"
            /\ UNCHANGED <<page_num, all_transactions>>
       ELSE IF ~sold_pdf.opens
       THEN /\ pc' = "extract_table_except"
            /\ all_transactions' = <<>>
            /\ UNCHANGED <<page_num, total_sold>>
       ELSE /\ pc' = "sold_pages"
            /\ page_num' = 1 /\ all_transactions' = <<>>
            /\ UNCHANGED total_sold
    /\ UNCHANGED <<scanVars, aggVars, argVars, all_text, total_vested,
                   total_purchased, summary>>

\* one iteration of the page loop of extract_table_from_pdf (90-111)
ExtractTablePage ==
    /\ pc = "sold_pages" /\ page_num <= Len(sold_pdf.pages)
    /\ LET page == sold_pdf.pages[page_num] IN
       IF page.raises
       THEN pc' = "extract_table_except"
            /\ UNCHANGED <<page_num, all_transactions>>
       ELSE /\ pc' = pc
            /\ page_num' = page_num + 1
            /\ all_transactions' =
                  IF Falsy(page.text) THEN all_transactions
                  ELSE all_transactions
                       \o ExtractTransactionsFromText(page.text)
    /\ UNCHANGED <<scanVars, aggVars, argVars, all_text, totalVars, summary>>

\* except Exception of extract_table_from_pdf: log and raise (113-115)
ExtractTableReraise ==
    /\ pc = "extract_table_except"
    /\ pc' = "read_sold_except"
    /\ UNCHANGED <<scanVars, aggVars, mainVars>>

\* return all_transactions (117) and read_sold_shares from there (572-587)
ReadSoldSharesFinish ==
    /\ pc = "sold_pages" /\ page_num > Len(sold_pdf.pages)
    /\ IF all_transactions # <<>>
       THEN /\ ShowResults(all_transactions)
            /\ total_sold' = SoldTotal(all_transactions)
       ELSE /\ total_sold' = 0
            /\ UNCHANGED <<date_quantities, sorted_dates, total_quantity>>
    /\ pc' = "main_summary"
    /\ UNCHANGED <<scanVars, data, espp_total, argVars, page_num, all_text,
                   all_transactions, total_vested, total_purchased, summary>>

\* except Exception of read_sold_shares (589-591)
ReadSoldSharesExcept ==
    /\ pc = "read_sold_except"
    /\ total_sold' = 0
    /\ pc' = "main_summary"
    /\ UNCHANGED <<scanVars, aggVars, argVars, page_num, all_text,
                   all_transactions, total_vested, total_purchased, summary>>

\* the summary, when both documents were processed (699-700)
MainSummary ==
    /\ pc = "main_summary"
    /\ summary' = IF ~no_vested /\ ~no_sold
                  THEN DisplaySummary(total_vested, total_purchased, total_sold)
                  ELSE summary
    /\ pc' = "done"
    /\ UNCHANGED <<scanVars, aggVars, argVars, page_num, all_text,
                   all_transactions, totalVars>>

NextMain ==
    \/ SkipVested \/ ReadVestedDataEnter \/ ExtractVestedDataPage
    \/ ExtractVestedDataReturn \/ ReadVestedDataFinish \/ ReadVestedDataExcept
    \/ SkipSold \/ ReadSoldSharesEnter \/ ExtractTablePage
    \/ ExtractTableReraise \/ ReadSoldSharesFinish \/ ReadSoldSharesExcept
    \/ MainSummary

SpecMain == InitMain /\ [][NextMain]_vars

---------------------------------------------------------------------------
(* display_summary on its own, with the totals it can be called with.      *)

\* 0, 12.5, 20, 50, 90 and 100 shares
SummaryTotals == {0, 125000, 200000, 500000, 900000, 1000000}

InitSummary ==
    /\ ScanIdle /\ AggIdle
    /\ pc = "main_summary"
    /\ vested_pdf = MissingFile /\ sold_pdf = MissingFile
    /\ no_vested = FALSE /\ no_sold = FALSE
    /\ page_num = 0 /\ all_text = <<"">> /\ all_transactions = <<>>
    /\ total_vested \in SummaryTotals
    /\ total_purchased \in SummaryTotals
    /\ total_sold \in SummaryTotals
    /\ summary = NoSummary

SpecSummary == InitSummary /\ [][MainSummary]_vars

---------------------------------------------------------------------------
(* Properties of the section scanners (SpecScan).                          *)

\* the line the loop is about to read
AtLine == lines[pos]

VestedStepping == pc = "vested_loop" /\ pos <= Len(lines)
EsppStepping == pc = "espp_loop" /\ pos <= Len(lines)

\* the shape of a valid data row of each section
VestedDataShape(line) ==
    Len(Split(line)) >= 6 /\ ValidVestDate(Split(line)[3])
EsppDataShape(line) ==
    Len(Split(line)) >= 2 /\ ValidOffPeriod(Split(line)[1], Split(line)[2])

\* the section-boundary patterns each scanner tests for
VestedBoundary(line) == IsVestedMarker(line) \/ IsVestedStop(line)
EsppBoundary(line) == IsEsppMarker(line) \/ IsEsppStop(line)

\* C1: in both scanners, while the section is active, a line that matches a
\* section-boundary pattern and also has the shape of a valid data row is
\* treated as a boundary: reading it adds no record.
C1_BoundaryBeforeData ==
    [][ /\ ( VestedStepping /\ scan.in_section
             /\ VestedBoundary(AtLine) /\ VestedDataShape(AtLine) )
           => scan'.records = scan.records
        /\ ( EsppStepping /\ scan.in_section
             /\ EsppBoundary(AtLine) /\ EsppDataShape(AtLine) )
           => scan'.records = scan.records ]_vars

\* C1 witness: the vesting scan, with its section active and a record already
\* taken, has left its loop at a line that holds "ESPP" and is a well-shaped
\* vesting row.
C1_Witness ==
    /\ pc = "vested_return" /\ scan.brk /\ scan.in_section
    /\ Len(scan.records) = 1
    /\ VestedDataShape(lines[pos]) /\ IsVestedStop(lines[pos])

\* the text without its line p
RemoveAt(text, p) == SubSeq(text, 1, p - 1) \o SubSeq(text, p + 1, Len(text))

\* Corrupted data rows: lines that no scanner test other than the row parse
\* recognises, with fewer tokens than the schema asks for or with a date
\* (period) field of the wrong shape.
TooFewTokens(line, n) == Len(Split(line)) < n
CorruptedVestedRows ==
    { l \in VestedCatalogue :
        /\ ~VestedBoundary(l) /\ ~IsVestedHeader(l) /\ ~IsVestedTotalLine(l)
        /\ Strip(l) # ""
        /\ TooFewTokens(l, 6) \/ Count(Split(l)[3], ".") # 2 }
CorruptedEsppRows ==
    { l \in EsppCatalogue :
        /\ ~EsppBoundary(l) /\ ~IsEsppHeader(l) /\ ~IsEsppContinuation(l)
        /\ Strip(l) # ""
        /\ TooFewTokens(l, 2) \/ ~IsAlnumStr(Split(l)[1]) }

\* C2: a text with one corrupted data row inserted at any position yields the
\* record list of the text without that row: the valid rows before and after
\* it are still extracted, in order, and the scan reaches its return.
C2_MalformedRowTolerated ==
    /\ pc = "vested_return" =>
          \A p \in 1..Len(lines) :
             lines[p] \in CorruptedVestedRows =>
                scan.records = ExtractVestedStocksFromText(RemoveAt(lines, p))
    /\ pc = "espp_return" =>
          \A p \in 1..Len(lines) :
             lines[p] \in CorruptedEsppRows =>
                scan.records = ExtractEsppFromText(RemoveAt(lines, p))

\* C2 witness: the vesting scan has returned two records from a text that
\* holds a corrupted row between the two valid rows.
C2_Witness ==
    /\ pc = "vested_return" /\ Len(scan.records) = 2
    /\ Len(lines) = 4 /\ lines[3] \in CorruptedVestedRows
    /\ VestedDataShape(lines[2]) /\ VestedDataShape(lines[4])

\* C8: a section start of the other section ends the current one: the vesting
\* scan takes no record from a line after an ESPP marker line, and the
\* purchase-plan scan takes no record from a line after a "Vested Stocks 2024"
\* marker line unless its own marker has been seen again since.
C8_ForeignMarkerEndsSection ==
    [][ /\ ( VestedStepping
             /\ \E j \in 1..(pos - 1) : IsEsppMarker(lines[j]) )
           => scan'.records = scan.records
        /\ ( EsppStepping
             /\ \E j \in 1..(pos - 1) :
                   /\ IsVestedMarker(lines[j])
                   /\ \A k \in (j + 1)..(pos - 1) : ~IsEsppMarker(lines[k]) )
           => scan'.records = scan.records ]_vars

---------------------------------------------------------------------------
(* Properties of the aggregators (SpecAgg).                                *)

Keys(d) == { d[i][1] : i \in 1..Len(d) }

RECURSIVE SumOfSaleQuantities(_)
\* the sum of the quantities of the sale records whose quantity converts
SumOfSaleQuantities(records) ==
    IF records = <<>> THEN 0
    ELSE (IF SaleQuantityOK(records[1]["Quantity"])
          THEN SaleQuantity(records[1]["Quantity"]) ELSE 0)
         + SumOfSaleQuantities(Tail(records))

RECURSIVE SumOfShares(_)
\* the sum of the shares of the vesting records whose shares convert
SumOfShares(records) ==
    IF records = <<>> THEN 0
    ELSE (IF SharesQuantityOK(records[1]["Shares"])
          THEN SharesQuantity(records[1]["Shares"]) ELSE 0)
         + SumOfShares(Tail(records))

\* C3: the quantities of the aggregate's entries sum to the sum of the
\* quantities of exactly the records whose quantity converts to a number; a
\* record whose quantity does not convert adds nothing and makes no entry for
\* its key, and no key has two entries.
C3_AggregateKeepsMass ==
    /\ pc = "displayed_results" =>
          /\ SumValues(date_quantities) = SumOfSaleQuantities(data)
          /\ Keys(date_quantities) =
                { data[i]["Date sold or transferred"] :
                    i \in { j \in 1..Len(data) :
                              SaleQuantityOK(data[j]["Quantity"]) } }
          /\ Cardinality(Keys(date_quantities)) = Len(date_quantities)
    /\ pc = "displayed_vested" =>
          /\ SumValues(date_quantities) = SumOfShares(data.vested_stocks)
          /\ Keys(date_quantities) =
                { data.vested_stocks[i]["Vest Date"] :
                    i \in { j \in 1..Len(data.vested_stocks) :
                              SharesQuantityOK(data.vested_stocks[j]["Shares"]) } }
          /\ Cardinality(Keys(date_quantities)) = Len(date_quantities)

\* C3 witness: three sale records, two on Jan-16-2024 with quantities 3.0000
\* and 10.5 and one whose quantity "1.2.3" does not convert, have been
\* aggregated into the single entry Jan-16-2024 -> 13.5.
C3_Witness ==
    /\ pc = "displayed_results"
    /\ data = << SaleRecord("Jan-16-2024", "3.0000"),
                 SaleRecord("Jan-01-1850", "1.2.3"),
                 SaleRecord("Jan-16-2024", "10.5") >>
    /\ date_quantities = << <<"Jan-16-2024", 135000>> >>

\* C4: in the sorted aggregate, of two entries whose keys parse as dates the
\* earlier comes first, and every entry whose key does not parse comes before
\* every entry whose key parses.
C4_ChronologicalUnparseableFirst ==
    /\ pc = "displayed_results" =>
          \A i, j \in 1..Len(sorted_dates) :
             i < j =>
               LET a == sorted_dates[i][1]
                   b == sorted_dates[j][1]
               IN /\ (SaleDateOK(a) /\ SaleDateOK(b))
                        => SaleDateVal(a) <= SaleDateVal(b)
                  /\ ~(SaleDateOK(a) /\ ~SaleDateOK(b))
    /\ pc = "displayed_vested" =>
          \A i, j \in 1..Len(sorted_dates) :
             i < j =>
               LET a == sorted_dates[i][1]
                   b == sorted_dates[j][1]
               IN /\ (VestDateOK(a) /\ VestDateOK(b))
                        => VestDateVal(a) <= VestDateVal(b)
                  /\ ~(VestDateOK(a) /\ ~VestDateOK(b))

RECURSIVE SumStripped(_, _)
\* the sum a list of quantity strings gives when comma and apostrophe are
\* stripped before each conversion
SumStripped(records, field) ==
    IF records = <<>> THEN 0
    ELSE (IF FloatOK(CleanShares(records[1][field]))
          THEN FloatVal(CleanShares(records[1][field])) ELSE 0)
         + SumStripped(Tail(records), field)

\* C10: every quantity conversion strips comma and apostrophe before it
\* converts, so that "1,000" and "1'000" count as 1000 in the sale aggregate,
\* the vesting aggregate and the purchased total; what still does not convert
\* is left out of the sum.
C10_SeparatorsStripped ==
    /\ pc = "displayed_results" =>
          total_quantity = SumStripped(data, "Quantity")
    /\ pc = "displayed_vested" =>
          /\ total_quantity = SumStripped(data.vested_stocks, "Shares")
          /\ espp_total = SumStripped(data.espp_data, "Purchased Shares")

---------------------------------------------------------------------------
(* Properties of the document readers (SpecMain).                          *)

\* the text-extraction collaborator fails while the file is read
CollaboratorFails(pdf) ==
    pdf.exists /\ (~pdf.opens \/ \E i \in 1..Len(pdf.pages) : pdf.pages[i].raises)

\* the document is absent: no file, or a file whose pages all have no text
Absent(pdf) ==
    \/ ~pdf.exists
    \/ pdf.opens /\ \A i \in 1..Len(pdf.pages) :
                       ~pdf.pages[i].raises /\ Falsy(pdf.pages[i].text)

\* main is past its call of read_vested_data, which returned to it
VestedReadReturned ==
    ~no_vested /\ pc \in {"main_sold", "sold_pages", "extract_table_except",
                          "read_sold_except", "main_summary", "done"}

\* main is past its call of read_sold_shares, which returned to it
SoldReadReturned == ~no_sold /\ pc \in {"main_summary", "done"}

\* C5: a failure of the text-extraction collaborator reaches the caller of
\* read_vested_data and of read_sold_shares as the failure it is: neither call
\* returns a result to main when the collaborator failed.
C5_UpstreamFailurePropagates ==
    /\ VestedReadReturned => ~CollaboratorFails(vested_pdf)
    /\ SoldReadReturned => ~CollaboratorFails(sold_pdf)

RECURSIVE JoinPages(_, _)
\* the lines of the texts of the pages, each followed by a newline
JoinPages(pages, n) ==
    IF n = 0 THEN <<"">>
    ELSE IF Falsy(pages[n].text) THEN JoinPages(pages, n - 1)
    ELSE AppendText(JoinPages(pages, n - 1), pages[n].text)

\* C6: an absent document gives the empty result and nothing is raised on
\* the way: read_vested_data returns (0.0, 0.0), read_sold_shares returns 0.0
\* and the record lists are empty, while the other document, when it reads,
\* gives the totals of its own records.
C6_AbsentDocumentIsEmpty ==
    /\ (~no_vested /\ Absent(vested_pdf)) =>
          /\ pc # "read_vested_except"
          /\ VestedReadReturned =>
                /\ total_vested = 0 /\ total_purchased = 0
                /\ data.vested_stocks = <<>> /\ data.espp_data = <<>>
          /\ (SoldReadReturned /\ ~CollaboratorFails(sold_pdf)) =>
                total_sold =
                   SumOfSaleQuantities(PerPage(sold_pdf.pages, 1, "transactions"))
    /\ (~no_sold /\ Absent(sold_pdf)) =>
          /\ pc \notin {"extract_table_except", "read_sold_except"}
          /\ SoldReadReturned =>
                /\ total_sold = 0 /\ all_transactions = <<>>
                /\ (~no_vested /\ ~CollaboratorFails(vested_pdf)) =>
                      total_vested =
                         SumOfShares(ExtractVestedStocksFromText(
                            JoinPages(vested_pdf.pages, Len(vested_pdf.pages))))

\* C6 witness: the run has ended with a vesting document of two pages without
\* text, read as (0, 0), and a sale document read as 3.0 + 10.5 shares sold.
C6_Witness ==
    /\ pc = "done" /\ ~no_vested /\ ~no_sold
    /\ vested_pdf.exists /\ Len(vested_pdf.pages) = 2 /\ Absent(vested_pdf)
    /\ total_vested = 0 /\ total_purchased = 0
    /\ total_sold = 135000

\* C9: the record lists of a document are the record lists of its pages, in
\* page order, one after the other: what extract_vested_data returns is what
\* the per-page extract_vested_stocks returns, and all_transactions is the
\* concatenation of the transactions of each page.
C9_DocumentIsPagesConcatenated ==
    /\ pc = "vested_data" => data = extract_vested_stocks(vested_pdf)
    /\ (pc = "sold_pages" /\ page_num > Len(sold_pdf.pages)) =>
          all_transactions = PerPage(sold_pdf.pages, 1, "transactions")

---------------------------------------------------------------------------
(* Properties of display_summary (SpecSummary).                            *)

\* C7: display_summary computes net = (total_vested + total_purchased)
\* - total_sold, prints it as "Remaining" when it is not negative and prints
\* its absolute value as "Oversold" when it is negative; 100, 20 and 90 give
\* 30 remaining, and 50, 0 and 90 give 40 oversold.
C7_NetPosition ==
    pc = "done" =>
       LET net == (total_vested + total_purchased) - total_sold IN
       /\ net >= 0 =>
             summary = [label |-> "Net Position (Remaining):", value |-> net]
       /\ net < 0 =>
             /\ summary.label = "Net Position (Oversold):"
             /\ summary.value = (IF net < 0 THEN 0 - net ELSE net)
       /\ (total_vested = 1000000 /\ total_purchased = 200000
           /\ total_sold = 900000) =>
             summary = [label |-> "Net Position (Remaining):", value |-> 300000]
       /\ (total_vested = 500000 /\ total_purchased = 0
           /\ total_sold = 900000) =>
             summary = [label |-> "Net Position (Oversold):", value |-> 400000]

\* C7 witness: display_summary has printed 40 oversold for 50 vested, none
\* purchased and 90 sold.
C7_Witness ==
    /\ pc = "done"
    /\ total_vested = 500000 /\ total_purchased = 0 /\ total_sold = 900000
    /\ summary = [label |-> "Net Position (Oversold):", value |-> 400000]

---------------------------------------------------------------------------
(* Properties of the scan state (SpecScan).                                *)

\* The two-state machine Idle / InSection on one vesting line: a section end
\* goes to Idle and the scan goes on, every other line is handled as the
\* scanner handles it.
VestedMachineLine(st, line) ==
    IF IsVestedMarker(line) THEN [st EXCEPT !.in_section = TRUE]
    ELSE IF IsVestedStop(line) THEN [st EXCEPT !.in_section = FALSE]
    ELSE VestedLine(st, line)

RECURSIVE VestedMachine(_, _, _)
VestedMachine(st, text, i) ==
    IF i > Len(text) THEN st
    ELSE VestedMachine(VestedMachineLine(st, text[i]), text, i + 1)

\* The same machine on one purchase-plan line.
EsppMachineLine(st, line) ==
    IF IsEsppMarker(line) THEN [st EXCEPT !.in_section = TRUE]
    ELSE IF st.in_section /\ IsEsppStop(line)
    THEN [st EXCEPT !.in_section = FALSE]
    ELSE EsppLine(st, line)

RECURSIVE EsppMachine(_, _, _)
EsppMachine(st, text, i) ==
    IF i > Len(text) THEN st
    ELSE EsppMachine(EsppMachineLine(st, text[i]), text, i + 1)

\* C11: each scanner follows the machine Idle / InSection: a section end
\* moves InSection to Idle and a later section start re-enters InSection, so
\* the records a scan returns are those of the machine, the valid rows after a
\* second marker included.
C11_SectionReentered ==
    /\ pc = "vested_return" =>
          scan.records = VestedMachine(VestedLocals, lines, 1).records
    /\ pc = "espp_return" =>
          scan.records = EsppMachine(EsppLocals, lines, 1).records

\* the lines read so far that are no marker line and come strictly after a
\* marker line of the scanner's section
VestedProducers ==
    { k \in 1..(pos - 1) :
        ~IsVestedMarker(lines[k]) /\ \E j \in 1..(k - 1) : IsVestedMarker(lines[j]) }
EsppProducers ==
    { k \in 1..(pos - 1) :
        ~IsEsppMarker(lines[k]) /\ \E j \in 1..(k - 1) : IsEsppMarker(lines[j]) }

\* record r holds the third and sixth token of the line
FromVestedLine(r, line) ==
    /\ Len(Split(line)) >= 6
    /\ r = VestedRecord(Split(line)[3], Split(line)[6])
\* record r holds the first and second token of the line
FromEsppLine(r, line) ==
    /\ Len(Split(line)) >= 2
    /\ r = EsppRecord(Split(line)[1], Split(line)[2])

\* C12: after any prefix of the input, every record of the list comes from a
\* line read strictly after a marker line of the scanner's section and while
\* the section was active: a step that adds a record reads a line that is no
\* marker, with the section flag already set by an earlier marker line, and
\* adds one record made of that line's tokens; no step taken while Idle and
\* no marker line adds a record.
C12_RecordsOnlyInsideSection ==
    /\ [] ( /\ pc \in {"vested_loop", "vested_return"} =>
                 /\ Len(scan.records) <= Cardinality(VestedProducers)
                 /\ \A n \in 1..Len(scan.records) :
                       \E k \in VestedProducers :
                          FromVestedLine(scan.records[n], lines[k])
            /\ pc \in {"espp_loop", "espp_return"} =>
                 /\ Len(scan.records) <= Cardinality(EsppProducers)
                 /\ \A n \in 1..Len(scan.records) :
                       \E k \in EsppProducers :
                          FromEsppLine(scan.records[n], lines[k]) )
    /\ [][ /\ (VestedStepping /\ scan'.records # scan.records) =>
                 /\ scan.in_section /\ ~IsVestedMarker(AtLine)
                 /\ \E j \in 1..(pos - 1) : IsVestedMarker(lines[j])
                 /\ Len(scan'.records) = Len(scan.records) + 1
                 /\ SubSeq(scan'.records, 1, Len(scan.records)) = scan.records
                 /\ FromVestedLine(scan'.records[Len(scan'.records)], AtLine)
           /\ (EsppStepping /\ scan'.records # scan.records) =>
                 /\ scan.in_section /\ ~IsEsppMarker(AtLine)
                 /\ \E j \in 1..(pos - 1) : IsEsppMarker(lines[j])
                 /\ Len(scan'.records) = Len(scan.records) + 1
                 /\ SubSeq(scan'.records, 1, Len(scan.records)) = scan.records
                 /\ FromEsppLine(scan'.records[Len(scan'.records)], AtLine)
           /\ (VestedStepping /\ (~scan.in_section \/ IsVestedMarker(AtLine))) =>
                 scan'.records = scan.records
           /\ (EsppStepping /\ (~scan.in_section \/ IsEsppMarker(AtLine))) =>
                 scan'.records = scan.records ]_vars

\* C12 witness: the vesting scan has read a well-shaped row while Idle, then
\* a marker line that itself has the shape of a row, then a row, and holds
\* the one record of the last row.
C12_Witness ==
    /\ pc = "vested_loop" /\ pos = 4 /\ Len(lines) >= 3
    /\ VestedDataShape(lines[1]) /\ ~VestedBoundary(lines[1])
    /\ IsVestedMarker(lines[2]) /\ VestedDataShape(lines[2])
    /\ Len(scan.records) = 1
    /\ FromVestedLine(scan.records[1], lines[3])

\* a Data line of the vesting section: no marker, no section end, not blank,
\* no header and no total line
IsVestedData(line) ==
    /\ ~IsVestedMarker(line) /\ ~IsVestedStop(line)
    /\ Strip(line) # ""
    /\ ~IsVestedHeader(line) /\ ~IsVestedTotalLine(line)

\* the four lines of the vesting scenario
ScenarioA ==
    << "Vested Stocks 2024",
       "Award Date Award ID Date Price",
       "01.03.2022 AB123 15.03.2024 10.00 1500.00 150",
       "Total 150" >>

\* C13: in the vesting section a Data line yields a record if and only if it
\* has at least 6 whitespace-separated tokens and its third token splits on
\* "." into exactly three components; the record is then the third token as
\* Vest Date and the sixth token as Shares, both as the raw strings. The four
\* lines of the scenario yield exactly the record (15.03.2024, 150).
C13_VestingRowSchema ==
    /\ [] ( (pc = "vested_return" /\ lines = ScenarioA) =>
               scan.records =
                  << ("Vest Date" :> "15.03.2024") @@ ("Shares" :> "150") >> )
    /\ [][ (VestedStepping /\ scan.in_section /\ IsVestedData(AtLine)) =>
              LET parts == Split(AtLine) IN
              IF Len(parts) >= 6 /\ Count(parts[3], ".") = 2
              THEN scan'.records =
                      Append(scan.records,
                             ("Vest Date" :> parts[3]) @@ ("Shares" :> parts[6]))
              ELSE scan'.records = scan.records ]_vars

\* C13 witness: the vesting scan has returned the one record of the scenario.
C13_Witness ==
    /\ pc = "vested_return" /\ lines = ScenarioA /\ ~scan.brk
    /\ scan.records = << VestedRecord("15.03.2024", "150") >>

=============================================================================
